---- MODULE Spec2Model ----
(***************************************************************************)
(* A model of the two commands of the orphaned_scans repository:           *)
(*   orphaned_sessions.py  the reconciliation run (enumerate the archive,  *)
(*                         query every XNAT instance, write the CSV, mail) *)
(*   adopt_orphans.py      the adoption workflow (move a directory into    *)
(*                         the inbox, trigger the inbox import)            *)
(* One behaviour is one invocation of one of the two commands.  Everything *)
(* outside the process (the credentials file, the archive tree, the        *)
(* answers of the remote instances, the inbox file system) is an input:    *)
(* chosen in Init when it is state that exists before the command starts,  *)
(* chosen with \E in the action that reads it otherwise.                   *)
(***************************************************************************)
EXTENDS Integers, Sequences, FiniteSets, TLC

VARIABLES
    cmd,                     \* which command this invocation runs
    pc,                      \* position of the command in its main()
    credfile,                \* state of the credentials file on disk
    stdout,                  \* the messages printed so far
    calls,                   \* log of the operations on the outside world
    archive,                 \* the session directories on disk -> their mtime
    start_date, end_date,    \* the window bounds handed to find
    dirs,                    \* result of query_sessions
    idx,                     \* position of the loop "for d in dirs"
    metadata_from_instances, \* the inner loop's list for the current d
    session_data,            \* the records assembled so far
    fs                       \* adoption: what is at the paths it touches

vars == <<cmd, pc, credfile, stdout, calls, archive, start_date, end_date,
          dirs, idx, metadata_from_instances, session_data, fs>>

----------------------------------------------------------------------------
(* Bounds of the model *)

\* Instants run from 1 to MaxTime; mtimes and window bounds share the axis.
MaxTime == 3

\* At most this many session directories exist in the archive.
MaxSessions == 2

Times == 1..MaxTime

\* Session directories {root}/{project}/arc001/{session}, written
\* <<project, session>>.  A name is represented by its rank in lexicographic
\* order: project 1 sorts before project 2, session 1 before session 2.
SessionDirs == {<<1, 1>>, <<1, 2>>, <<2, 1>>}

----------------------------------------------------------------------------
(* Configuration *)

XNAT_INSTANCES == <<"https://xnat2.bu.edu", "https://xnat.bu.edu">>

NumInstances == Len(XNAT_INSTANCES)

\* The instances by their position in XNAT_INSTANCES.
Instances == DOMAIN XNAT_INSTANCES

CSV_FILENAME == "orphaned_sessions.csv"

None == "None"

----------------------------------------------------------------------------
(* Credentials *)

CredFiles == {"complete", "missing", "unparsable", "no_auth_section",
              "no_username", "no_password"}

\* read_xnat_auth: the exception it raises, or "ok"
read_xnat_auth(f) ==
    CASE f = "missing"         -> "FileNotFoundError"
      [] f = "unparsable"      -> "ParsingError"
      [] f = "no_auth_section" -> "ValueError"
      [] f = "no_username"     -> "ValueError"
      [] f = "no_password"     -> "ValueError"
      [] OTHER                 -> "ok"

\* get_credentials: the exception it raises, or "ok"
get_credentials(f) ==
    CASE f = "missing"         -> "FileNotFoundError"
      [] f = "unparsable"      -> "ParsingError"
      [] f = "no_auth_section" -> "KeyError"
      [] f = "no_username"     -> "KeyError"
      [] f = "no_password"     -> "KeyError"
      [] OTHER                 -> "ok"

Call(op, arg, result) == [op |-> op, arg |-> arg, result |-> result]

CallsOf(op) == {k \in 1..Len(calls) : calls[k].op = op}

----------------------------------------------------------------------------
(* Archive Enumerator: query_sessions *)

\* The archive trees: which session directories exist, and their mtime.
Archives ==
    UNION {[S -> Times] :
              S \in {T \in SUBSET SessionDirs : Cardinality(T) <= MaxSessions}}

\* The arc001 directories the shell glob /data/xnat/archive/*/arc001 expands to.
GlobArc001(a) == {d[1] : d \in DOMAIN a}

\* find's test -newermt REF: the entry was modified after REF.
newermt(t, ref) == t > ref

\* The expression "-newermt {start_date} ! -newermt {end_date}" of the command.
FindTest(t, s, e) == newermt(t, s) /\ ~newermt(t, e)

FindMatches(a, s, e) ==
    {d \in DOMAIN a : FindTest(a[d], s, e)}

\* The shell sorts the expansion of the glob and find visits its starting
\* points in that order; inside one arc001 the sessions come in directory
\* order, which is any order.
FindOrders(S) ==
    {q \in [1..Cardinality(S) -> S] :
        /\ \A j, k \in DOMAIN q : j # k => q[j] # q[k]
        /\ \A j, k \in DOMAIN q : j < k => q[j][1] <= q[k][1]}

\* The exit statuses find can end with: 1 when the glob matched nothing (the
\* pattern itself is no directory) and, whatever it printed, when a directory
\* of the tree could not be read.
FindExits(a) == IF GlobArc001(a) = {} THEN {1} ELSE {0, 1}

\* The empty string, as a path of no components.
EmptyLine == <<>>

\* result.strip().split('\n'): the empty output splits into one empty line.
SplitLines(out) == IF out = <<>> THEN <<EmptyLine>> ELSE out

\* dirs = result.strip().split('\n'); if dirs == ['']: dirs = []
ParseFindOutput(out) ==
    LET lines == SplitLines(out) IN IF lines = <<EmptyLine>> THEN <<>> ELSE lines

----------------------------------------------------------------------------
(* Remote Presence Resolver: query_xnat_metadata *)

\* What one GET can end with: a 2xx answer with the experiment's JSON object,
\* a 404, another HTTP error status, or an exception that is no HTTPError
\* (timeout, connection error, a body that is not JSON).
HttpOutcomes == {"json", "404", "http_error", "exception"}

ErrorOutcomes == {"http_error", "exception"}

\* The value query_xnat_metadata returns.
query_xnat_metadata(outcome) == IF outcome = "json" THEN "json" ELSE None

\* The lines query_xnat_metadata prints.
QueryMessages(outcome) ==
    CASE outcome = "http_error" -> <<"HTTP error on url">>
      [] outcome = "exception"  -> <<"Error querying url">>
      [] OTHER                  -> <<>>

\* bool(meta): None is false, the JSON object of an experiment is true.
Bool(meta) == meta # None

project_of(d) == d[1]

session_of(d) == d[2]

\* get_last_modified
get_last_modified(a, d) == a[d]

InnerLoopDone_shortcut(metas) ==
    \/ Len(metas) = NumInstances
    \/ Len(metas) > 0 /\ metas[Len(metas)] = None

\* "for base_url in XNAT_INSTANCES" is exhausted.
InnerLoopDone(metas) == Len(metas) = NumInstances

\* The dict appended to session_data.
SessionRecord(a, d, metas) ==
    [project |-> project_of(d), session |-> session_of(d), path |-> d,
     last_modified |-> get_last_modified(a, d),
     metadata_xnat2 |-> Bool(metas[1]),
     metadata_xnat |-> Bool(metas[2])]

\* The test of the orphan count: df['metadata_xnat2'] == False
CountedAsOrphan(rec) == rec.metadata_xnat2 = FALSE

RECURSIVE CountOrphans(_)
CountOrphans(data) ==
    IF data = <<>> THEN 0
    ELSE (IF CountedAsOrphan(data[1]) THEN 1 ELSE 0) + CountOrphans(Tail(data))

\* num_orphans = (df['metadata_xnat2'] == False).sum()
num_orphans(data) == CountOrphans(data)

\* send_email: one mailx command; a failed command is caught and printed.
send_email(message, csvfile, ok) == Call("mailx", <<message, csvfile>>, ok)

----------------------------------------------------------------------------
(* orphaned_sessions.py: main *)

\* "except Exception ... return" after read_xnat_auth failed.
AfterAuthError == "aborted"

\* main, up to the credentials: parse the arguments, read_xnat_auth.
LoadCredentials ==
    /\ cmd = "reconcile"
    /\ pc = "start"
    /\ LET r == read_xnat_auth(credfile) IN
        IF r = "ok"
        THEN /\ pc' = "find"
             /\ stdout' = stdout
        ELSE /\ pc' = AfterAuthError
             /\ stdout' = Append(stdout, "Error reading authentication credentials")
    /\ UNCHANGED <<cmd, credfile, calls, archive, start_date, end_date, dirs,
                   idx, metadata_from_instances, session_data, fs>>

\* query_sessions, called first thing by find_sessions_and_metadata.  A
\* non-zero exit makes check_output raise CalledProcessError, which nothing
\* catches: the command ends with a traceback.
QuerySessions ==
    /\ cmd = "reconcile"
    /\ pc = "find"
    /\ \E exit \in FindExits(archive) :
        /\ calls' = Append(calls, Call("find", <<start_date, end_date>>, exit))
        /\ IF exit # 0
           THEN /\ pc' = "crashed"
                /\ UNCHANGED <<dirs, idx>>
           ELSE /\ \E out \in FindOrders(FindMatches(archive, start_date, end_date)) :
                     dirs' = ParseFindOutput(out)
                /\ idx' = 1
                /\ pc' = "loop"
    /\ UNCHANGED <<cmd, credfile, stdout, archive, start_date, end_date,
                   metadata_from_instances, session_data, fs>>

\* One pass of "for base_url in XNAT_INSTANCES": query_xnat_metadata and append.
QueryInstance ==
    /\ cmd = "reconcile"
    /\ pc = "loop"
    /\ idx <= Len(dirs)
    /\ ~InnerLoopDone(metadata_from_instances)
    /\ LET d == dirs[idx]
           base_url == Len(metadata_from_instances) + 1
       IN \E outcome \in HttpOutcomes :
            /\ calls' = Append(calls,
                   Call("GET", <<base_url, project_of(d), session_of(d)>>, outcome))
            /\ stdout' = stdout \o QueryMessages(outcome)
            /\ metadata_from_instances' =
                   Append(metadata_from_instances, query_xnat_metadata(outcome))
    /\ UNCHANGED <<cmd, pc, credfile, archive, start_date, end_date, dirs, idx,
                   session_data, fs>>

\* The end of one pass of "for d in dirs": session_data.append({...}).
\* Indexing the list past its end raises IndexError, which nothing catches.
AppendRecord ==
    /\ cmd = "reconcile"
    /\ pc = "loop"
    /\ idx <= Len(dirs)
    /\ InnerLoopDone(metadata_from_instances)
    /\ IF Len(metadata_from_instances) < NumInstances
       THEN /\ pc' = "crashed"
            /\ UNCHANGED <<session_data, idx, metadata_from_instances>>
       ELSE /\ session_data' = Append(session_data,
                   SessionRecord(archive, dirs[idx], metadata_from_instances))
            /\ idx' = idx + 1
            /\ metadata_from_instances' = <<>>
            /\ pc' = pc
    /\ UNCHANGED <<cmd, credfile, stdout, calls, archive, start_date, end_date,
                   dirs, fs>>

\* main: "if not data": print, send_email without attachment, return.
NoScans ==
    /\ cmd = "reconcile"
    /\ pc = "loop"
    /\ idx > Len(dirs)
    /\ session_data = <<>>
    /\ \E sent \in BOOLEAN :
        /\ calls' = Append(calls, send_email(<<"No scans found on disk">>, None, sent))
        /\ stdout' = stdout \o <<"No scans found on disk">>
              \o (IF sent THEN <<"Report emailed">> ELSE <<"Failed to send email">>)
    /\ pc' = "done"
    /\ UNCHANGED <<cmd, credfile, archive, start_date, end_date, dirs, idx,
                   metadata_from_instances, session_data, fs>>

\* main: df.to_csv inside its try/except.
SaveCsv ==
    /\ cmd = "reconcile"
    /\ pc = "loop"
    /\ idx > Len(dirs)
    /\ session_data # <<>>
    /\ \E saved \in BOOLEAN :
        /\ calls' = Append(calls, Call("to_csv", CSV_FILENAME, saved))
        /\ stdout' = Append(stdout,
              IF saved THEN "Saved session metadata" ELSE "Error saving CSV file")
    /\ pc' = "summary"
    /\ UNCHANGED <<cmd, credfile, archive, start_date, end_date, dirs, idx,
                   metadata_from_instances, session_data, fs>>

\* The message of the summary mail.
SummaryMessage(data) ==
    IF num_orphans(data) > 0
    THEN <<"orphans found out of", num_orphans(data), Len(data)>>
    ELSE <<"No orphans found out of", Len(data)>>

\* main: count the orphans, print, send_email with the CSV attached.
Summary ==
    /\ cmd = "reconcile"
    /\ pc = "summary"
    /\ \E sent \in BOOLEAN :
        /\ calls' = Append(calls,
              send_email(SummaryMessage(session_data), CSV_FILENAME, sent))
        /\ stdout' = stdout \o <<SummaryMessage(session_data)[1]>>
              \o (IF sent THEN <<"Report emailed">> ELSE <<"Failed to send email">>)
    /\ pc' = "done"
    /\ UNCHANGED <<cmd, credfile, archive, start_date, end_date, dirs, idx,
                   metadata_from_instances, session_data, fs>>

----------------------------------------------------------------------------
(* adopt_orphans.py *)

\* What the adoption command finds at the paths it touches:
\*   local   local_dicom_dir: "D" (the DICOM directory) or "absent"
\*   parent  {inbox_base}/{project}: "dir" or "absent"
\*   dest    dest_inbox_dir = {inbox_base}/{project}/{basename}: "absent", a
\*           regular "file", a "dir" or a "dir_with_entries" (entries other
\*           than one named {basename})
\*   nested  dest_inbox_dir/{basename}: "absent" or an "other" entry
\* "D" at dest or nested is the moved directory, "partial" an incomplete copy
\* or what an incomplete removal left.
InitialFs ==
    {f \in [local : {"D", "absent"}, parent : {"dir", "absent"},
            dest : {"absent", "file", "dir", "dir_with_entries"},
            nested : {"absent", "other"}] :
        /\ f.dest # "absent" => f.parent = "dir"
        /\ f.nested # "absent" => f.dest \in {"dir", "dir_with_entries"}}

NoFs == [local |-> "absent", parent |-> "absent", dest |-> "absent",
         nested |-> "absent"]

IsDir(content) == content \in {"dir", "dir_with_entries", "D", "partial"}

\* shutil.move: real_dst is dst, or dst/basename(src) when dst is a directory.
RealDst(f) == IF IsDir(f.dest) THEN "nested" ELSE "dest"

\* How shutil.move(src, dst) can end:
\*   "moved"          os.rename, or copytree and rmtree, went through
\*   "raise"          an exception with nothing changed (real_dst exists, src
\*                    is missing, dst is a file, rename and copy refused)
\*   "raise_copying"  rename refused (another device), copytree failed midway
\*   "raise_removing" copytree went through, rmtree of the source failed
MoveOutcomes(f) ==
    IF \/ f.local # "D"
       \/ IsDir(f.dest) /\ f.nested # "absent"
       \/ f.dest = "file"
    THEN {"raise"}
    ELSE {"moved", "raise", "raise_copying", "raise_removing"}

shutil_move(f, outcome) ==
    LET to == RealDst(f) IN
    CASE outcome = "moved"          -> [f EXCEPT !.local = "absent", ![to] = "D"]
      [] outcome = "raise_copying"  -> [f EXCEPT ![to] = "partial"]
      [] outcome = "raise_removing" -> [f EXCEPT !.local = "partial", ![to] = "D"]
      [] OTHER                      -> f

MsgMoved == "Moved local_dicom_dir to dest_inbox_dir"

\* The printed lines that hold the path dest_inbox_dir.
NamesDest(msg) == msg = MsgMoved

\* "except Exception ... return" after get_credentials failed.
AdoptAfterCredentialError_fallthrough == "makedirs"

AdoptAfterCredentialError == "aborted"

\* "except Exception ... return" after shutil.move failed.
AfterMoveError_fallthrough == "import"

AfterMoveError == "RelocateFailed"

\* main, up to the credentials: parse the arguments, get_credentials.
AdoptLoadCredentials ==
    /\ cmd = "adopt"
    /\ pc = "start"
    /\ LET r == get_credentials(credfile) IN
        IF r = "ok"
        THEN /\ pc' = "makedirs"
             /\ stdout' = stdout
        ELSE /\ pc' = AdoptAfterCredentialError
             /\ stdout' = Append(stdout, "Error loading XNAT credentials")
    /\ UNCHANGED <<cmd, credfile, calls, archive, start_date, end_date, dirs,
                   idx, metadata_from_instances, session_data, fs>>

\* os.makedirs(os.path.dirname(dest_inbox_dir), exist_ok=True), outside any
\* try: when the parent cannot be created the exception ends the command.
MakeDirs ==
    /\ cmd = "adopt"
    /\ pc = "makedirs"
    /\ \E created \in (IF fs.parent = "dir" THEN {TRUE} ELSE BOOLEAN) :
        /\ calls' = Append(calls, Call("makedirs", "parent", created))
        /\ fs' = IF created THEN [fs EXCEPT !.parent = "dir"] ELSE fs
        /\ pc' = IF created THEN "move" ELSE "crashed"
    /\ UNCHANGED <<cmd, credfile, stdout, archive, start_date, end_date, dirs,
                   idx, metadata_from_instances, session_data>>

\* try: shutil.move(local_dicom_dir, dest_inbox_dir) except: print, return
Move ==
    /\ cmd = "adopt"
    /\ pc = "move"
    /\ \E outcome \in MoveOutcomes(fs) :
        /\ calls' = Append(calls, Call("move", "dest_inbox_dir", outcome))
        /\ fs' = shutil_move(fs, outcome)
        /\ IF outcome = "moved"
           THEN /\ stdout' = Append(stdout, MsgMoved)
                /\ pc' = "import"
           ELSE /\ stdout' = Append(stdout, "ERROR moving directory")
                /\ pc' = AfterMoveError
    /\ UNCHANGED <<cmd, credfile, archive, start_date, end_date, dirs, idx,
                   metadata_from_instances, session_data>>

\* What the POST to /data/services/import can end with.
ImportOutcomes == {"200", "202", "other_status", "exception"}

ImportState(outcome) ==
    CASE outcome \in {"200", "202"} -> "ImportAccepted"
      [] outcome = "other_status"   -> "ImportRejected"
      [] OTHER                      -> "ImportError"

ImportMessage(outcome) ==
    CASE outcome \in {"200", "202"} -> "Import request successful."
      [] outcome = "other_status"   -> "Import request failed (status): text"
      [] OTHER                      -> "ERROR calling API"

\* session.post(import_api_url, ...) with path={dest_inbox_dir}
TriggerImport ==
    /\ cmd = "adopt"
    /\ pc = "import"
    /\ \E outcome \in ImportOutcomes :
        /\ calls' = Append(calls, Call("POST", "dest_inbox_dir", outcome))
        /\ stdout' = Append(stdout, ImportMessage(outcome))
        /\ pc' = ImportState(outcome)
    /\ UNCHANGED <<cmd, credfile, archive, start_date, end_date, dirs, idx,
                   metadata_from_instances, session_data, fs>>

----------------------------------------------------------------------------
(* One invocation of one command *)

EmptyArchive == <<>>

InitReconcile ==
    /\ cmd = "reconcile"
    /\ archive \in Archives
    /\ start_date \in Times
    /\ end_date \in Times
    /\ fs = NoFs

InitAdopt ==
    /\ cmd = "adopt"
    /\ archive = EmptyArchive
    /\ start_date = 1
    /\ end_date = 1
    /\ fs \in InitialFs

Init ==
    /\ pc = "start"
    /\ credfile \in CredFiles
    /\ stdout = <<>>
    /\ calls = <<>>
    /\ dirs = <<>>
    /\ idx = 1
    /\ metadata_from_instances = <<>>
    /\ session_data = <<>>
    /\ (InitReconcile \/ InitAdopt)

Next ==
    \/ LoadCredentials
    \/ QuerySessions
    \/ QueryInstance
    \/ AppendRecord
    \/ NoScans
    \/ SaveCsv
    \/ Summary
    \/ AdoptLoadCredentials
    \/ MakeDirs
    \/ Move
    \/ TriggerImport

Spec == Init /\ [][Next]_vars

----------------------------------------------------------------------------
(* Vocabulary of the properties *)

\* The GET requests sent to instance inst for session directory d.
Gets(inst, d) ==
    {k \in CallsOf("GET") : calls[k].arg = <<inst, project_of(d), session_of(d)>>}

\* How the remote instance answered for d: Present, Absent or Unknown.
Presence(inst, d) ==
    LET outcomes == {calls[k].result : k \in Gets(inst, d)} IN
    CASE outcomes = {"json"} -> "Present"
      [] outcomes = {"404"}  -> "Absent"
      [] OTHER               -> "Unknown"

\* The CSV column of each instance, in configuration order.
PresenceKeys == <<"metadata_xnat2", "metadata_xnat">>

\* The first configured instance.
Primary == CHOOSE inst \in Instances : \A other \in Instances : inst <= other

ReconcileRan == cmd = "reconcile" /\ pc \in {"loop", "summary", "done"}

ReconcileDone == cmd = "reconcile" /\ pc = "done"

Mails == CallsOf("mailx")

\* <<project, session>> of a before that of b, or equal
LexLeq(a, b) ==
    \/ a.project < b.project
    \/ a.project = b.project /\ a.session <= b.session

InWindow(t, s, e) == s <= t /\ t < e

MoveWentThrough == \E k \in CallsOf("move") : calls[k].result = "moved"

RelocateFailed ==
    \/ \E k \in CallsOf("makedirs") : calls[k].result = FALSE
    \/ \E k \in CallsOf("move") : calls[k].result # "moved"

\* The destination existed and held entries before the move was attempted.
DestPopulated == fs.dest = "dir_with_entries" \/ fs.nested = "other"

ImportFailed == cmd = "adopt" /\ pc \in {"ImportRejected", "ImportError"}

----------------------------------------------------------------------------
(* The claims *)

\* C1 (as stated): once query_sessions has returned, dirs holds exactly the
\* session directories whose mtime t satisfies start_date <= t < end_date.
C1_WindowStartInclusiveEndExclusive ==
    ReconcileRan =>
        {dirs[k] : k \in DOMAIN dirs} =
            {d \in DOMAIN archive : InWindow(archive[d], start_date, end_date)}

\* C2 (as stated): at the end of a run, a session every instance answered
\* with an error for is not counted as an orphan, and every enumerated
\* session has its record.
C2_AllErrorsIsNotAnOrphan ==
    ReconcileDone =>
        /\ Len(session_data) = Len(dirs)
        /\ \A j \in DOMAIN session_data :
              (\A inst \in Instances :
                  \E k \in Gets(inst, dirs[j]) : calls[k].result \in ErrorOutcomes)
              => ~CountedAsOrphan(session_data[j])

\* C3 (as stated): at the end of a run, a record is counted as an orphan if
\* and only if the primary instance answered Absent for its session, whatever
\* the secondary instance answered, and the count of the summary is the
\* number of such records.
C3_OrphanIffAbsentFromPrimary ==
    ReconcileDone =>
        /\ \A j \in DOMAIN session_data :
              CountedAsOrphan(session_data[j])
                  <=> Presence(Primary, dirs[j]) = "Absent"
        /\ num_orphans(session_data) =
              Cardinality({j \in DOMAIN dirs : Presence(Primary, dirs[j]) = "Absent"})

\* C4: an import request is only ever issued after a move that went through;
\* once makedirs or the move has failed the command has stopped (the handled
\* RelocateFailed, or the traceback of makedirs), nothing more can happen and
\* no import request was issued.
C4_NoImportAfterRelocateFailure ==
    cmd = "adopt" =>
        /\ \A k \in CallsOf("POST") :
              \E j \in CallsOf("move") : j < k /\ calls[j].result = "moved"
        /\ RelocateFailed =>
              /\ pc \in {"RelocateFailed", "crashed"}
              /\ CallsOf("POST") = {}
              /\ ~ENABLED Next

C4_Witness ==
    /\ cmd = "adopt"
    /\ pc = "RelocateFailed"
    /\ fs.local = "D"
    /\ fs.dest = "partial"

\* C5 (as stated): after a move that went through, the directory is gone
\* from its original path and is at dest_inbox_dir; when the import then
\* fails it is still there and a printed line names dest_inbox_dir.
C5_RelocatedToDestAndStays ==
    (cmd = "adopt" /\ MoveWentThrough) =>
        /\ fs.local = "absent"
        /\ fs.dest = "D"
        /\ ImportFailed => \E m \in DOMAIN stdout : NamesDest(stdout[m])

\* C6: with a credentials file that is missing or lacks the section, the
\* username or the password, the command stops right after loading it: no
\* operation on the outside world was made (no makedirs, move, POST, find,
\* GET, to_csv, mailx), nothing was enumerated and nothing can happen next.
C6_ConfigErrorAbortsBeforeSideEffects ==
    LET r == IF cmd = "adopt" THEN get_credentials(credfile)
                              ELSE read_xnat_auth(credfile)
    IN (r # "ok" /\ pc # "start") =>
           /\ pc = "aborted"
           /\ calls = <<>>
           /\ dirs = <<>>
           /\ session_data = <<>>
           /\ ~ENABLED Next

C6_Witness ==
    /\ cmd = "adopt"
    /\ pc = "aborted"
    /\ credfile = "no_password"
    /\ fs.local = "D"

\* C7 (as stated): a run that got past the credentials and has ended has
\* invoked send_email exactly once: without attachment and with the "no
\* scans found" message when nothing was enumerated, with the CSV attached
\* when records exist.
C7_NotifiedExactlyOnceOnEveryPath ==
    (cmd = "reconcile" /\ pc \in {"done", "crashed"}) =>
        /\ Cardinality(Mails) = 1
        /\ \A k \in Mails :
              IF session_data = <<>>
              THEN calls[k].arg = <<(<<"No scans found on disk">>), None>>
              ELSE calls[k].arg[2] = CSV_FILENAME

\* C8: all along a run, the sessions before the loop position have exactly
\* one GET per instance and exactly one record, in enumeration order, whose
\* column of each instance is what that instance's answer gives; the session
\* at the loop position has one GET for each instance already passed and none
\* for the others; later sessions have none.  The loop is left only at the
\* end of dirs, and the run never ends in an exception once find succeeded.
C8_EveryInstanceQueriedOncePerSession ==
    /\ ReconcileRan =>
        /\ Len(session_data) = idx - 1
        /\ idx <= Len(dirs) + 1
        /\ pc \in {"summary", "done"} => idx = Len(dirs) + 1
        /\ \A j \in DOMAIN dirs : \A inst \in Instances :
              Cardinality(Gets(inst, dirs[j])) =
                  IF j < idx \/ (j = idx /\ inst <= Len(metadata_from_instances))
                  THEN 1 ELSE 0
        /\ \A j \in DOMAIN session_data :
              /\ session_data[j].path = dirs[j]
              /\ session_data[j].project = project_of(dirs[j])
              /\ session_data[j].session = session_of(dirs[j])
              /\ \A inst \in Instances :
                    /\ PresenceKeys[inst] \in DOMAIN session_data[j]
                    /\ \A k \in Gets(inst, dirs[j]) :
                          session_data[j][PresenceKeys[inst]] =
                              (calls[k].result = "json")
    /\ (cmd = "reconcile" /\ pc = "crashed") =>
          /\ calls[Len(calls)].op = "find"
          /\ calls[Len(calls)].result # 0

C8_Witness ==
    /\ ReconcileDone
    /\ Len(session_data) = 2
    /\ \E k \in Gets(1, dirs[1]) : calls[k].result = "exception"
    /\ \E k \in Gets(2, dirs[1]) : calls[k].result = "json"
    /\ session_data[1].metadata_xnat2 = FALSE
    /\ session_data[1].metadata_xnat = TRUE

\* C9 (as stated): when the destination existed and was populated, the
\* command, once past the move, is in RelocateFailed, the local directory is
\* where it was and no import request was issued.
C9_PopulatedDestinationFailsRelocate ==
    (cmd = "adopt" /\ DestPopulated /\ CallsOf("move") # {}) =>
        /\ pc = "RelocateFailed"
        /\ fs.nested # "D"
        /\ fs.dest # "D"
        /\ CallsOf("POST") = {}

\* C10 (as stated): at the end of a run the records are ordered by project
\* and then by session.
C10_RecordsSortedByProjectThenSession ==
    ReconcileDone =>
        \A j, k \in DOMAIN session_data :
            j < k => LexLeq(session_data[j], session_data[k])

====
